---- MODULE Spec2Model ----
(***************************************************************************)
(* docling.utils.toon_export.save_as_toon: export of a document to a TOON  *)
(* file.  The filesystem is a tree of nodes (directories and files), a     *)
(* call of save_as_toon is a sequence of steps (codec check, model_dump,   *)
(* encode, one os.mkdir per step of Path.mkdir(parents=True,               *)
(* exist_ok=True), open, write), and two callers may interleave.           *)
(***************************************************************************)
EXTENDS Integers, Sequences, FiniteSets, TLC

\* ---------------------------------------------------------------- bounds
MaxDirs == 2        \* depth of the directory chain d/d/...
MaxCalls == 2       \* calls of save_as_toon in one run
MaxFaults == 1      \* I/O failures of the environment in one run

Procs == {1, 2}

\* ------------------------------------------------------------- documents
None == [t |-> "none"]
StrV(s) == [t |-> "str", v |-> s]
IntV(i) == [t |-> "int", v |-> i]
Obj == [t |-> "object"]        \* a value model_dump cannot serialise
Unsup == [t |-> "unsupported"] \* a value that slips through and the codec rejects

Fields == <<"name", "page_no">>
Alias(f) == IF f = "page_no" THEN "pageNo" ELSE f

Docs ==
  { [name |-> None, page_no |-> None],
    [name |-> None, page_no |-> IntV(7)],
    [name |-> StrV("7"), page_no |-> IntV(7)],
    [name |-> StrV("U+00E9"), page_no |-> None],
    [name |-> Obj, page_no |-> None],
    [name |-> Unsup, page_no |-> IntV(7)] }

\* doc.model_dump(mode="json", exclude_none=True, by_alias=True): the
\* mapping as the ordered list of its (alias, value) items.
RECURSIVE DumpFields(_, _)
DumpFields(d, i) ==
  IF i > Len(Fields) THEN <<>>
  ELSE LET f == Fields[i]
           rest == DumpFields(d, i + 1)
       IN IF d[f] = None THEN rest ELSE <<[k |-> Alias(f), v |-> d[f]]>> \o rest

DumpRaises(d) == \E i \in 1..Len(Fields) : d[Fields[i]] = Obj
ModelDump(d) == DumpFields(d, 1)

\* A Python dict compares by keys and values, not by order.
AsDict(m) == { <<m[i].k, m[i].v>> : i \in 1..Len(m) }

\* ----------------------------------------------------------------- codec
\* toon.encode / toon.decode on a flat mapping: one "key: value" line per
\* item, lines joined by a newline, a string quoted when it would read back
\* as a number, numbers written in decimal.  A text is a sequence of
\* characters.
Digits == <<"0", "1", "2", "3", "4", "5", "6", "7", "8", "9">>
IsDigit(c) == \E i \in 1..Len(Digits) : Digits[i] = c
DigitOf(c) == (CHOOSE i \in 1..Len(Digits) : Digits[i] = c) - 1
NeedsQuote(s) == IsDigit(s) \/ s \in {"", "true", "false", "null"}

ScalarText(v) ==
  IF v.t = "int" THEN <<Digits[v.v + 1]>>
  ELSE IF NeedsQuote(v.v) THEN <<"\"", v.v, "\"">>
  ELSE <<v.v>>

LineText(item) == <<item.k, ":", " ">> \o ScalarText(item.v)

RECURSIVE JoinLines(_, _)
JoinLines(m, i) ==
  IF i > Len(m) THEN <<>>
  ELSE IF i = Len(m) THEN LineText(m[i])
  ELSE LineText(m[i]) \o <<"\n">> \o JoinLines(m, i + 1)

EncodeRaises(m) == \E i \in 1..Len(m) : m[i].v = Unsup
ToonEncode(m) == JoinLines(m, 1)

\* decode: split at newlines, then read each line back.
RECURSIVE SplitLines(_, _)
SplitLines(text, cur) ==
  IF text = <<>> THEN (IF cur = <<>> THEN <<>> ELSE <<cur>>)
  ELSE IF Head(text) = "\n" THEN <<cur>> \o SplitLines(Tail(text), <<>>)
  ELSE SplitLines(Tail(text), Append(cur, Head(text)))

WellFormedLine(l) ==
  /\ Len(l) \in {4, 6}
  /\ l[2] = ":" /\ l[3] = " "
  /\ Len(l) = 6 => (l[4] = "\"" /\ l[6] = "\"")
  /\ Len(l) = 4 => l[4] # "\""

ParseScalar(l) ==
  IF Len(l) = 6 THEN StrV(l[5])
  ELSE IF IsDigit(l[4]) THEN IntV(DigitOf(l[4]))
  ELSE StrV(l[4])

\* The decoded top-level value: a dict (kind "dict", its items in dict), a
\* scalar for a text that is one bare primitive, or an error.
ToonDecode(text) ==
  LET ls == SplitLines(text, <<>>)
  IN IF \A i \in 1..Len(ls) : WellFormedLine(ls[i])
     THEN [kind |-> "dict",
           dict |-> { <<ls[i][1], ParseScalar(ls[i])>> : i \in 1..Len(ls) }]
     ELSE IF Len(ls) = 1 /\ Len(ls[1]) = 1 THEN [kind |-> "scalar", dict |-> {}]
     ELSE [kind |-> "error", dict |-> {}]

\* ----------------------------------------------------------------- UTF-8
\* open(..., encoding="utf-8"): the file holds bytes; an ASCII character is
\* one byte, U+00E9 is the two bytes C3 A9.
RECURSIVE Utf8Encode(_)
Utf8Encode(text) ==
  IF text = <<>> THEN <<>>
  ELSE (IF Head(text) = "U+00E9" THEN <<"0xC3", "0xA9">> ELSE <<Head(text)>>)
       \o Utf8Encode(Tail(text))

RECURSIVE Utf8Decode(_)
Utf8Decode(bytes) ==
  IF bytes = <<>> THEN <<>>
  ELSE IF Head(bytes) = "0xC3" /\ Len(bytes) >= 2 /\ bytes[2] = "0xA9"
       THEN <<"U+00E9">> \o Utf8Decode(Tail(Tail(bytes)))
  ELSE <<Head(bytes)>> \o Utf8Decode(Tail(bytes))

\* ------------------------------------------------------------ filesystem
\* A path is the sequence of its components; <<>> is the working directory.
Dir(k) == [i \in 1..k |-> "d"]
DirPaths == { Dir(k) : k \in 0..MaxDirs }
ToonPaths ==
  { Append(Dir(k), "a.toon") : k \in 0..MaxDirs } \cup {Append(Dir(MaxDirs), "b.toon")}
JsonPaths == { Append(Dir(k), "a.json") : k \in 0..MaxDirs }
Nodes == DirPaths \cup ToonPaths \cup JsonPaths

\* The filenames a caller passes: a file in any directory of the chain, the
\* name of the chain's first directory, and one spelling with a "." component.
Filenames == ToonPaths \cup {Dir(1), <<".", "a.toon">>}

Prefix(q, i) == SubSeq(q, 1, i)
Parent(q) == Prefix(q, Len(q) - 1)
IsPrefix(a, b) == Len(a) <= Len(b) /\ Prefix(b, Len(a)) = a
ProperAncestors(q) == { Prefix(q, i) : i \in 0..(Len(q) - 1) }

\* only the last component is kept, as Path(filename).name
PathOf_NameOnly(f) == <<f[Len(f)]>>

\* Path(filename) drops "." components.
RECURSIVE PathOf(_)
PathOf(f) ==
  IF f = <<>> THEN <<>>
  ELSE IF Head(f) = "." THEN PathOf(Tail(f))
  ELSE <<Head(f)>> \o PathOf(Tail(f))

\* the directory is made at output_path itself
MkdirTarget_Self(path) == path

\* line 57: output_path.parent, the directory that is made
MkdirTarget(path) == Parent(path)

\* os.mkdir(q) on the tree k: the errno, "OK" when q can be created.
OsMkdir(k, q) ==
  IF q = <<>> THEN "EEXIST"
  ELSE IF \E a \in ProperAncestors(q) : k[a] = "file" THEN "ENOTDIR"
  ELSE IF k[Parent(q)] = "absent" THEN "ENOENT"
  ELSE IF k[q] # "absent" THEN "EEXIST"
  ELSE "OK"

\* os.open(q, O_WRONLY | O_CREAT | O_TRUNC): the errno.
OsOpen(k, q) ==
  IF \E a \in ProperAncestors(q) : k[a] = "file" THEN "ENOTDIR"
  ELSE IF k[Parent(q)] = "absent" THEN "ENOENT"
  ELSE IF k[q] = "dir" THEN "EISDIR"
  ELSE "OK"

\* mkdir without parents=True
MkdirParents_Off == FALSE

\* mkdir without exist_ok=True
MkdirExistOk_Off == FALSE

\* the file opened for appending
OpenMode_Append == "a"

\* the file written in the Latin-1 encoding
OpenEncoding_Latin1 == "latin-1"

\* The arguments of the calls at lines 57 and 59.
MkdirParents == TRUE
MkdirExistOk == TRUE
OpenMode == "w"
OpenEncoding == "utf-8"

\* the written text never reaches the file
AfterWrite_Lost(mode, old, bytes) == old

\* The file's bytes once opened in `mode`, and once `bytes` are written.
AfterOpen(mode, old) == IF mode = "w" THEN <<>> ELSE old
AfterWrite(mode, old, bytes) ==
  IF mode = "a" THEN old \o bytes
  ELSE bytes \o SubSeq(old, Len(bytes) + 1, Len(old))

\* A text written under `enc`; latin-1 writes U+00E9 as the one byte E9.
RECURSIVE Latin1Encode(_)
Latin1Encode(text) ==
  IF text = <<>> THEN <<>>
  ELSE <<IF Head(text) = "U+00E9" THEN "0xE9" ELSE Head(text)>> \o Latin1Encode(Tail(text))

EncodeText(enc, text) == IF enc = "utf-8" THEN Utf8Encode(text) ELSE Latin1Encode(text)

\* ----------------------------------------------------------------- state
VARIABLES
  toon,    \* the module global: "module" when `import toon` worked, "None" otherwise
  faults,  \* I/O failures still to come: a permission refused, the disk full
  kind,    \* kind[q]: "absent", "dir" or "file", for every node q
  data,    \* data[q]: the bytes of the file q
  calls,   \* calls of save_as_toon started so far
  call,    \* call[p]: the frame of caller p's call of save_as_toon
  obs,     \* obs[p]: what an observer of p's call has recorded (history only)
  cli      \* the command-line run that exports one document in several formats

vars == <<toon, faults, kind, data, calls, call, obs, cli>>

NoDoc == [name |-> None, page_no |-> None]
Idle ==
  [pc |-> "idle", doc |-> NoDoc, filename |-> <<>>, doc_dict |-> <<>>,
   toon_content |-> <<>>, output_path |-> <<>>, level |-> 0, phase |-> "first",
   err |-> "none"]
NoObs ==
  [trace |-> <<>>, touched |-> {}, peers |-> {}, clear |-> TRUE,
   before |-> [kind |-> "absent", data |-> <<>>], final |-> <<>>]
NoCli ==
  [pc |-> "idle", doc |-> NoDoc, output |-> <<>>, formats |-> <<>>, i |-> 1,
   exit_code |-> 0, err |-> "none", written |-> {}]

Active(p) == call[p].pc \notin {"idle", "done"}

\* The destination a filename names, as an observer of the filesystem sees it.
Target(f) == SelectSeq(f, LAMBDA x : x # ".")

\* Filesystems a call may find: the first k directories of the chain
\* exist, and a.toon in the working directory may, as an empty file (as
\* NamedTemporaryFile leaves it) or with older content.
OldText == <<"o", "l", "d", "e", "r", " ", "c", "o", "n", "t", "e", "n", "t", "s">>
EmptyTree(k) == [q \in Nodes |-> IF q \in DirPaths /\ Len(q) <= k THEN "dir" ELSE "absent"]
NoData == [q \in Nodes |-> <<>>]
InitTrees ==
  { [kd |-> EmptyTree(k), dt |-> NoData] : k \in 0..MaxDirs }
  \cup
  { [kd |-> [EmptyTree(0) EXCEPT ![<<"a.toon">>] = "file"],
     dt |-> [NoData EXCEPT ![<<"a.toon">>] = txt]] : txt \in {<<>>, OldText} }

Init ==
  /\ toon \in {"module", "None"}
  /\ faults = MaxFaults
  /\ \E t \in InitTrees : kind = t.kd /\ data = t.dt
  /\ calls = 0
  /\ call = [p \in Procs |-> Idle]
  /\ obs = [p \in Procs |-> NoObs]
  /\ cli = NoCli

\* The nodes a step changed.
Changed == { q \in Nodes : kind'[q] # kind[q] \/ data'[q] # data[q] }

\* The errors the environment injects.
EnvErrors == {"PermissionError", "OSError"}

\* Caller p's frame becomes c after the step named `step`.
Step(p, step, c) ==
  /\ call' = [call EXCEPT ![p] = c]
  /\ faults' = IF c.err \in EnvErrors THEN faults - 1 ELSE faults
  /\ obs' = [obs EXCEPT ![p].trace = Append(@, step),
                        ![p].touched = @ \cup Changed,
                        ![p].final = IF c.pc = "done" /\ c.err = "none"
                                     THEN data'[Target(c.filename)] ELSE @]
  /\ UNCHANGED <<toon, calls>>

\* the exception is caught and dropped, and the function returns
Raise_Swallowed(c, e) == [c EXCEPT !.pc = "done"]

\* An exception leaves save_as_toon: nothing in it catches one.
Raise(c, e) == [c EXCEPT !.pc = "done", !.err = e]

\* the directories are made before the document is converted
AfterStage_PathFirst(s) ==
  CASE s = "check" -> "path"
    [] s = "path" -> "mkdir"
    [] s = "mkdir" -> "dump"
    [] s = "dump" -> "encode"
    [] s = "encode" -> "open"
    [] s = "open" -> "write"
    [] s = "write" -> "done"

\* The statement that follows each statement of save_as_toon.
AfterStage(s) ==
  CASE s = "check" -> "dump"        \* line 36 -> line 46
    [] s = "dump" -> "encode"       \* line 46 -> line 53
    [] s = "encode" -> "path"       \* line 53 -> line 56
    [] s = "path" -> "mkdir"        \* line 56 -> line 57
    [] s = "mkdir" -> "open"        \* line 57 -> line 59
    [] s = "open" -> "write"        \* line 59 -> line 60
    [] s = "write" -> "done"        \* line 60 -> return

\* the guard of line 36 left out
CodecMissing_Unchecked(t) == FALSE

\* line 36: if toon is None
CodecMissing(t) == t = "None"

\* ------------------------------------------------------------ operations
\* A caller invokes save_as_toon(d, f).
Invoke(p, d, f) ==
  /\ call[p].pc = "idle"
  /\ calls' = calls + 1
  /\ call' = [call EXCEPT ![p] = [Idle EXCEPT !.pc = "check", !.doc = d, !.filename = f]]
  /\ obs' = [q \in Procs |->
       IF q = p
       THEN [NoObs EXCEPT
               !.peers = { [path |-> Target(call[r].filename), doc |-> call[r].doc] :
                             r \in { x \in Procs : Active(x) } },
               !.clear = /\ \A a \in ProperAncestors(Target(f)) : kind[a] # "file"
                         /\ kind[Target(f)] # "dir",
               !.before = [kind |-> kind[Target(f)], data |-> data[Target(f)]]]
       ELSE IF Active(q)
            THEN [obs[q] EXCEPT !.peers = @ \cup {[path |-> Target(f), doc |-> d]}]
       ELSE obs[q]]
  /\ UNCHANGED <<toon, faults, kind, data>>

\* One call at a time, by the first caller.
Call(p) ==
  /\ calls < MaxCalls
  /\ \A q \in Procs : call[q].pc = "idle" /\ p <= q
  /\ \E d \in Docs, f \in Filenames : Invoke(p, d, f)
  /\ UNCHANGED cli

\* The documents whose export succeeds where nothing is in its way.
DocsOK == { d \in Docs : ~DumpRaises(d) /\ ~EncodeRaises(ModelDump(d)) }

\* A call that may start while another caller's call is under way; each
\* caller makes one call, caller 1 the first.
CallConcurrent(p) ==
  /\ p = calls + 1
  /\ \E d \in DocsOK, f \in Filenames : Invoke(p, d, f)
  /\ UNCHANGED cli

\* lines 36-40: if toon is None: raise ImportError
CheckCodec(p) ==
  /\ call[p].pc = "check"
  /\ UNCHANGED <<kind, data, cli>>
  /\ Step(p, "check",
          IF CodecMissing(toon) THEN Raise(call[p], "ImportError")
          ELSE [call[p] EXCEPT !.pc = AfterStage("check")])

\* lines 46-50: doc_dict = doc.model_dump(...)
Dump(p) ==
  /\ call[p].pc = "dump"
  /\ UNCHANGED <<kind, data, cli>>
  /\ Step(p, "model_dump",
          IF DumpRaises(call[p].doc) THEN Raise(call[p], "PydanticSerializationError")
          ELSE [call[p] EXCEPT !.pc = AfterStage("dump"),
                               !.doc_dict = ModelDump(call[p].doc)])

\* line 53: toon_content = toon.encode(doc_dict)
Encode(p) ==
  /\ call[p].pc = "encode"
  /\ UNCHANGED <<kind, data, cli>>
  /\ Step(p, "encode",
          IF EncodeRaises(call[p].doc_dict) THEN Raise(call[p], "EncodeError")
          ELSE [call[p] EXCEPT !.pc = AfterStage("encode"),
                               !.toon_content = ToonEncode(call[p].doc_dict)])

\* line 56: output_path = Path(filename); Path.mkdir starts at its parent
MakePath(p) ==
  /\ call[p].pc = "path"
  /\ UNCHANGED <<kind, data, cli>>
  /\ LET path == PathOf(call[p].filename)
     IN Step(p, "path",
             [call[p] EXCEPT !.pc = AfterStage("path"), !.output_path = path,
                             !.level = Len(MkdirTarget(path)), !.phase = "first"])

\* line 57: output_path.parent.mkdir(parents=True, exist_ok=True), one
\* os.mkdir per step.  Path.mkdir tries os.mkdir(self); on FileNotFoundError
\* with parents it makes the parent (parents=True, exist_ok=True) and tries
\* self again with parents=False; on another OSError it raises unless
\* exist_ok and self is a directory.  level is the length of the ancestor
\* being made, phase tells the first try from the second.
Mkdir(p) ==
  /\ call[p].pc = "mkdir"
  /\ UNCHANGED cli
  /\ LET c == call[p]
         top == Len(MkdirTarget(c.output_path))
         q == Prefix(c.output_path, c.level)
         r == OsMkdir(kind, q)
         parents == IF c.phase = "again" THEN FALSE
                    ELSE IF c.level = top THEN MkdirParents ELSE TRUE
         exist_ok == IF c.level = top THEN MkdirExistOk ELSE TRUE
         made == IF c.level = top THEN [c EXCEPT !.pc = AfterStage("mkdir")]
                 ELSE [c EXCEPT !.level = @ + 1, !.phase = "again"]
     IN \/ /\ r = "OK"
           /\ kind' = [kind EXCEPT ![q] = "dir"]
           /\ data' = data
           /\ Step(p, "mkdir", made)
        \/ /\ r = "OK" /\ faults > 0         \* the parent is not writable
           /\ UNCHANGED <<kind, data>>
           /\ Step(p, "mkdir", Raise(c, "PermissionError"))
        \/ /\ r = "ENOENT"
           /\ UNCHANGED <<kind, data>>
           /\ Step(p, "mkdir",
                   IF parents /\ q # <<>>
                   THEN [c EXCEPT !.level = @ - 1, !.phase = "first"]
                   ELSE Raise(c, "FileNotFoundError"))
        \/ /\ r \in {"EEXIST", "ENOTDIR"}
           /\ UNCHANGED <<kind, data>>
           /\ Step(p, "mkdir",
                   IF exist_ok /\ kind[q] = "dir" THEN made
                   ELSE Raise(c, IF r = "EEXIST" THEN "FileExistsError"
                                 ELSE "NotADirectoryError"))

\* line 59: open(output_path, "w", encoding="utf-8")
Open(p) ==
  /\ call[p].pc = "open"
  /\ UNCHANGED cli
  /\ LET c == call[p]
         q == c.output_path
         r == OsOpen(kind, q)
     IN \/ /\ r = "OK"
           /\ kind' = [kind EXCEPT ![q] = "file"]
           /\ data' = [data EXCEPT ![q] = AfterOpen(OpenMode, @)]
           /\ Step(p, "open", [c EXCEPT !.pc = AfterStage("open")])
        \/ /\ r = "OK" /\ faults > 0         \* no permission to write there
           /\ UNCHANGED <<kind, data>>
           /\ Step(p, "open", Raise(c, "PermissionError"))
        \/ /\ r # "OK"
           /\ UNCHANGED <<kind, data>>
           /\ Step(p, "open",
                   Raise(c, CASE r = "ENOTDIR" -> "NotADirectoryError"
                              [] r = "ENOENT" -> "FileNotFoundError"
                              [] r = "EISDIR" -> "IsADirectoryError"))

\* line 60 and the end of the with block: f.write(toon_content), close
Write(p) ==
  /\ call[p].pc = "write"
  /\ UNCHANGED cli
  /\ LET c == call[p]
         q == c.output_path
         bytes == EncodeText(OpenEncoding, c.toon_content)
     IN \/ /\ data' = [data EXCEPT ![q] = AfterWrite(OpenMode, @, bytes)]
           /\ kind' = kind
           /\ Step(p, "write", [c EXCEPT !.pc = AfterStage("write")])
        \/ \E n \in 0..(Len(bytes) - 1) :    \* the disk fills after n bytes
           /\ faults > 0
           /\ data' = [data EXCEPT ![q] = AfterWrite(OpenMode, @, SubSeq(bytes, 1, n))]
           /\ kind' = kind
           /\ Step(p, "write", Raise(c, "OSError"))

\* The call returns or raises to its caller.
Return(p) ==
  /\ call[p].pc = "done"
  /\ call' = [call EXCEPT ![p] = Idle]
  /\ obs' = [obs EXCEPT ![p] = NoObs]
  /\ UNCHANGED <<toon, faults, kind, data, calls, cli>>

Next ==
  \E p \in Procs :
    \/ Call(p)
    \/ CheckCodec(p)
    \/ Dump(p)
    \/ Encode(p)
    \/ MakePath(p)
    \/ Mkdir(p)
    \/ Open(p)
    \/ Write(p)
    \/ Return(p)

Spec == Init /\ [][Next]_vars

NextConcurrent ==
  \E p \in Procs :
    \/ CallConcurrent(p)
    \/ CheckCodec(p)
    \/ Dump(p)
    \/ Encode(p)
    \/ MakePath(p)
    \/ Mkdir(p)
    \/ Open(p)
    \/ Write(p)
    \/ Return(p)

\* Two callers at once, the codec installed, no I/O failure to come.
InitConcurrent ==
  /\ toon = "module"
  /\ faults = 0
  /\ \E t \in InitTrees : kind = t.kd /\ data = t.dt
  /\ calls = 0
  /\ call = [p \in Procs |-> Idle]
  /\ obs = [p \in Procs |-> NoObs]
  /\ cli = NoCli

SpecConcurrent == InitConcurrent /\ [][NextConcurrent]_vars


\* ------------------------------------------------------ command line run
\* The command line's export of one converted document in the formats asked
\* for with --to, into the directory given with --output: one file
\* <stem>.<format> per format, exit code 0 when every export succeeded and
\* non-zero as soon as one fails.  The stem is "a".
JsonScalar(v) ==
  IF v.t = "int" THEN <<Digits[v.v + 1]>>
  ELSE IF v.t = "str" THEN <<"\"", v.v, "\"">>
  ELSE <<"NaN">>

RECURSIVE JsonItems(_, _)
JsonItems(m, i) ==
  IF i > Len(m) THEN <<>>
  ELSE <<"\"", m[i].k, "\"", ":">> \o JsonScalar(m[i].v)
       \o (IF i < Len(m) THEN <<",">> ELSE <<>>) \o JsonItems(m, i + 1)

JsonEncode(m) == <<"{">> \o JsonItems(m, 1) \o <<"}">>

\* A converted document has a name.
CliDocs == { d \in Docs : d.name # None }
CliFormats == {<<"json">>, <<"toon">>, <<"json", "toon">>, <<"toon", "json">>}
OutputFile(out, fmt) == Append(out, IF fmt = "json" THEN "a.json" ELSE "a.toon")

CliStart ==
  /\ cli.pc = "idle"
  /\ \A p \in Procs : call[p].pc = "idle"
  /\ \E d \in CliDocs, out \in DirPaths, fmts \in CliFormats :
       /\ kind[out] = "dir"
       /\ cli' = [NoCli EXCEPT !.pc = "run", !.doc = d, !.output = out, !.formats = fmts]
  /\ UNCHANGED <<toon, faults, kind, data, calls, call, obs>>

CliFail(e) == [cli EXCEPT !.pc = "exit", !.exit_code = 1, !.err = e]

\* --to json: the document's mapping written as JSON to <output>/a.json
CliExportJson ==
  /\ cli.pc = "run" /\ cli.i <= Len(cli.formats) /\ cli.formats[cli.i] = "json"
  /\ LET q == OutputFile(cli.output, "json")
         bytes == Utf8Encode(JsonEncode(ModelDump(cli.doc)))
     IN \/ /\ DumpRaises(cli.doc) \/ kind[q] = "dir"
           /\ UNCHANGED <<kind, data, faults>>
           /\ cli' = CliFail(IF DumpRaises(cli.doc) THEN "PydanticSerializationError"
                             ELSE "IsADirectoryError")
        \/ /\ ~DumpRaises(cli.doc) /\ kind[q] # "dir"
           /\ kind' = [kind EXCEPT ![q] = "file"]
           /\ data' = [data EXCEPT ![q] = bytes]
           /\ cli' = [cli EXCEPT !.i = @ + 1, !.written = @ \cup {<<q, bytes>>}]
           /\ faults' = faults
        \/ \E n \in 0..(Len(bytes) - 1) :
           /\ faults > 0 /\ ~DumpRaises(cli.doc) /\ kind[q] # "dir"
           /\ kind' = [kind EXCEPT ![q] = "file"]
           /\ data' = [data EXCEPT ![q] = SubSeq(bytes, 1, n)]
           /\ cli' = CliFail("OSError")
           /\ faults' = faults - 1
  /\ UNCHANGED <<toon, calls, call, obs>>

\* --to toon: save_as_toon(document, <output>/a.toon)
CliExportToon ==
  /\ cli.pc = "run" /\ cli.i <= Len(cli.formats) /\ cli.formats[cli.i] = "toon"
  /\ Invoke(1, cli.doc, OutputFile(cli.output, "toon"))
  /\ cli' = [cli EXCEPT !.pc = "toon"]

\* save_as_toon has returned or raised.
CliToonDone ==
  /\ cli.pc = "toon" /\ call[1].pc = "done"
  /\ LET q == OutputFile(cli.output, "toon")
     IN cli' = IF call[1].err = "none"
               THEN [cli EXCEPT !.pc = "run", !.i = @ + 1,
                                !.written = @ \cup {<<q, data[q]>>}]
               ELSE CliFail(call[1].err)
  /\ call' = [call EXCEPT ![1] = Idle]
  /\ obs' = [obs EXCEPT ![1] = NoObs]
  /\ UNCHANGED <<toon, faults, kind, data, calls>>

CliExit ==
  /\ cli.pc = "run" /\ cli.i > Len(cli.formats)
  /\ cli' = [cli EXCEPT !.pc = "exit", !.exit_code = 0]
  /\ UNCHANGED <<toon, faults, kind, data, calls, call, obs>>

NextCli ==
  \/ CliStart
  \/ CliExportJson
  \/ CliExportToon
  \/ CliToonDone
  \/ CliExit
  \/ CheckCodec(1)
  \/ Dump(1)
  \/ Encode(1)
  \/ MakePath(1)
  \/ Mkdir(1)
  \/ Open(1)
  \/ Write(1)

SpecCli == Init /\ [][NextCli]_vars

\* ---------------------------------------------------------------- claims
Done(p) == call[p].pc = "done"
Succeeded(p) == Done(p) /\ call[p].err = "none"
Dest(p) == Target(call[p].filename)
Closure(q) == ProperAncestors(q) \cup {q}
HasField(d) == \E i \in 1..Len(Fields) : d[Fields[i]] # None

\* The statements of save_as_toon in program order, and a trace with each
\* run of os.mkdir steps counted as the one statement of line 57.
Order == <<"check", "model_dump", "encode", "path", "mkdir", "open", "write">>
RECURSIVE Statements(_)
Statements(tr) ==
  IF Len(tr) <= 1 THEN tr
  ELSE IF tr[1] = "mkdir" /\ tr[2] = "mkdir" THEN Statements(Tail(tr))
  ELSE <<tr[1]>> \o Statements(Tail(tr))
InOrder(tr) ==
  LET st == Statements(tr) IN Len(st) <= Len(Order) /\ st = SubSeq(Order, 1, Len(st))

\* C1 as stated: with the codec unavailable every call fails with ImportError
\* after the codec check alone, changes nothing in the filesystem, and the
\* destination file does not exist afterwards.
C1_GatingLeavesNoFile ==
  \A p \in Procs :
    (Done(p) /\ toon = "None") =>
      /\ call[p].err = "ImportError"
      /\ obs[p].trace = <<"check">>
      /\ obs[p].touched = {}
      /\ kind[Dest(p)] = "absent"

\* C1 as amended: with the codec unavailable every call fails with ImportError
\* after the codec check alone (model_dump is never invoked), changes no node
\* of the filesystem, and leaves the destination exactly as it was before
\* the call: absent if it was absent.
C1_Gating ==
  \A p \in Procs :
    (Done(p) /\ toon = "None") =>
      /\ call[p].err = "ImportError"
      /\ obs[p].trace = <<"check">>
      /\ obs[p].touched = {}
      /\ kind[Dest(p)] = obs[p].before.kind
      /\ data[Dest(p)] = obs[p].before.data

C1_Witness ==
  \E p \in Procs :
    /\ Done(p) /\ toon = "None" /\ call[p].err = "ImportError"
    /\ Len(Dest(p)) = MaxDirs + 1
    /\ \A a \in ProperAncestors(Dest(p)) \ {<<>>} : kind[a] = "absent"
    /\ kind[Dest(p)] = "absent"

\* C2: after a successful export the destination holds exactly the bytes of
\* this export's encoded text, whatever the file held before (also a longer
\* text of an earlier export): nothing is appended, no tail is left over.
C2_Overwrite ==
  \A p \in Procs :
    Succeeded(p) =>
      /\ kind[Dest(p)] = "file"
      /\ data[Dest(p)] = Utf8Encode(call[p].toon_content)

C2_Witness ==
  \E p \in Procs :
    /\ Succeeded(p) /\ calls = 2
    /\ obs[p].before.kind = "file"
    /\ \E d \in DocsOK : obs[p].before.data = Utf8Encode(ToonEncode(ModelDump(d)))
    /\ Len(obs[p].before.data) > Len(data[Dest(p)])
    /\ Len(data[Dest(p)]) > 0

\* C3: with the codec available, missing parent directories (any number of
\* levels) never make an export fail and existing ones do not either: an
\* export fails in directory creation or in open only when the environment
\* refuses (PermissionError) or a node of the wrong kind is in the way (a
\* file where a directory is needed, a directory at the destination); and
\* after a successful export every ancestor of the destination is a
\* directory and the destination is a file.
C3_ParentsCreated ==
  \A p \in Procs :
    (Done(p) /\ toon = "module") =>
      /\ call[p].err = "none" =>
           /\ \A a \in ProperAncestors(Dest(p)) : kind[a] = "dir"
           /\ kind[Dest(p)] = "file"
      /\ call[p].err # "FileNotFoundError"
      /\ call[p].err \in {"FileExistsError", "NotADirectoryError"} =>
           \E a \in ProperAncestors(Dest(p)) : kind[a] = "file"
      /\ call[p].err = "IsADirectoryError" => kind[Dest(p)] = "dir"
      /\ ( /\ call[p].doc \in DocsOK
           /\ call[p].err \notin {"PermissionError", "OSError"}
           /\ \A a \in ProperAncestors(Dest(p)) : kind[a] # "file"
           /\ kind[Dest(p)] # "dir" ) => call[p].err = "none"

C3_Witness ==
  \E p \in Procs :
    /\ Succeeded(p)
    /\ Cardinality(obs[p].touched \cap DirPaths) >= 2
    /\ obs[p].before.kind = "absent"
    /\ kind[Dest(p)] = "file"

\* C4: a successful export of a document with at least one non-absent field
\* leaves the destination an existing file of size greater than 0, also when
\* the destination was an empty file before the call.
C4_NonEmpty ==
  \A p \in Procs :
    (Succeeded(p) /\ HasField(call[p].doc)) =>
      /\ kind[Dest(p)] = "file"
      /\ Len(data[Dest(p)]) > 0

C4_Witness ==
  \E p \in Procs :
    /\ Succeeded(p) /\ HasField(call[p].doc)
    /\ obs[p].before = [kind |-> "file", data |-> <<>>]
    /\ Len(data[Dest(p)]) > 0

\* What the test reads back: open(output_file, "r", encoding="utf-8").read()
\* and toon.decode of it.
ReadBack(q) == ToonDecode(Utf8Decode(data[q]))

\* C5: after a successful export, decoding the text read back from the
\* destination file yields a top-level dict, equal in keys and values to
\* the mapping that was encoded.
C5_RoundTrip ==
  \A p \in Procs :
    Succeeded(p) =>
      /\ ReadBack(Dest(p)).kind = "dict"
      /\ ReadBack(Dest(p)).dict = AsDict(call[p].doc_dict)

C5_Witness ==
  \E p \in Procs :
    /\ Succeeded(p)
    /\ call[p].doc = [name |-> StrV("7"), page_no |-> IntV(7)]
    /\ obs[p].before = [kind |-> "file", data |-> OldText]
    /\ ReadBack(Dest(p)).dict = {<<"name", StrV("7")>>, <<"pageNo", IntV(7)>>}

\* C6: every step of a call, of a successful and of a failing one, leaves
\* the document and the filename as they were and changes no node of the
\* filesystem other than the destination (which becomes or stays a file)
\* and missing ancestor directories of it (which become directories).
C6_Frame ==
  [][ /\ \A p \in Procs :
           (call[p].pc # "idle" /\ call'[p].pc # "idle") =>
             /\ call'[p].doc = call[p].doc
             /\ call'[p].filename = call[p].filename
      /\ \A q \in Nodes :
           (kind'[q] # kind[q] \/ data'[q] # data[q]) =>
             \E p \in Procs :
               /\ call[p].pc # "idle"
               /\ call'[p] # call[p]
               /\ \/ q = Dest(p) /\ kind[q] # "dir" /\ kind'[q] = "file"
                  \/ /\ q \in ProperAncestors(Dest(p))
                     /\ kind[q] = "absent" /\ kind'[q] = "dir" /\ data'[q] = data[q]
    ]_vars

C6_Witness ==
  \E p \in Procs :
    /\ Succeeded(p)
    /\ obs[p].touched # {}
    /\ \E q \in Nodes \ Closure(Dest(p)) : kind[q] = "file" /\ Len(data[q]) > 0
    /\ \E q \in DirPaths \ Closure(Dest(p)) : kind[q] = "dir"

\* The statement at which each error is raised.
RaisedAt(e) ==
  CASE e = "ImportError" -> {"check"}
    [] e = "PydanticSerializationError" -> {"model_dump"}
    [] e = "EncodeError" -> {"encode"}
    [] e \in {"FileExistsError"} -> {"mkdir"}
    [] e \in {"NotADirectoryError", "PermissionError", "FileNotFoundError"} -> {"mkdir", "open"}
    [] e = "IsADirectoryError" -> {"open"}
    [] e = "OSError" -> {"write"}
    [] OTHER -> {}

\* C8: a call that ends has run the statements of save_as_toon in program
\* order, each at most once; it ends without an error only after all of
\* them, and with an error right after the statement that failed, the
\* error being the one that statement raised: nothing runs after the
\* failing statement and nothing is tried again.
C8_Propagation ==
  \A p \in Procs :
    Done(p) =>
      /\ InOrder(obs[p].trace)
      /\ call[p].err = "none" => Statements(obs[p].trace) = Order
      /\ call[p].err # "none" =>
           obs[p].trace[Len(obs[p].trace)] \in RaisedAt(call[p].err)
      /\ call[p].err = "PydanticSerializationError" <=>
           (toon = "module" /\ DumpRaises(call[p].doc))
      /\ call[p].err = "EncodeError" <=>
           (toon = "module" /\ ~DumpRaises(call[p].doc)
              /\ EncodeRaises(ModelDump(call[p].doc)))
      /\ call[p].err = "OSError" =>
           Len(data[Dest(p)]) < Len(Utf8Encode(call[p].toon_content))

C8_Witness ==
  \E p \in Procs :
    /\ Done(p) /\ call[p].err = "OSError"
    /\ Statements(obs[p].trace) = Order
    /\ Len(data[Dest(p)]) > 0

\* C10: the statements run in the order codec check, model_dump, encode,
\* directory creation, open, write; no node of the filesystem is changed
\* before encode has succeeded, so when model_dump or encode fails no
\* directory has been created and the destination is as it was before the
\* call.
C10_EncodeBeforeFilesystem ==
  \A p \in Procs :
    /\ InOrder(obs[p].trace)
    /\ call[p].pc \in {"check", "dump", "encode", "path"} => obs[p].touched = {}
    /\ (Done(p) /\ call[p].err \in {"PydanticSerializationError", "EncodeError"}) =>
         /\ obs[p].touched = {}
         /\ kind[Dest(p)] = obs[p].before.kind
         /\ data[Dest(p)] = obs[p].before.data

C10_Witness ==
  \E p \in Procs :
    /\ Done(p) /\ call[p].err = "EncodeError"
    /\ obs[p].before = [kind |-> "file", data |-> OldText]
    /\ data[Dest(p)] = OldText

\* C7 as stated: a call that found nothing in its way when it started, and
\* whose document and destination differ from those of every call that ran
\* at the same time, succeeds and leaves in its file exactly the encoding
\* of its own document, however the steps interleave.
C7_DifferentPaths ==
  \A p \in Procs :
    (Done(p) /\ obs[p].clear /\ call[p].err \notin EnvErrors
       /\ \A x \in obs[p].peers : x.path # Dest(p) /\ x.doc # call[p].doc) =>
      /\ call[p].err = "none"
      /\ obs[p].final = Utf8Encode(call[p].toon_content)

\* Neither path is the other or an ancestor of the other.
Unrelated(a, b) == ~IsPrefix(a, b) /\ ~IsPrefix(b, a)

\* C7 as amended: a call that found nothing in its way when it started, and
\* whose destination is neither the destination of a call that ran at the
\* same time nor an ancestor or a descendant of it, succeeds and leaves in
\* its file exactly the encoding of its own document, however the steps
\* interleave, also when the calls create the same missing parents.
C7_Independent ==
  \A p \in Procs :
    (Done(p) /\ obs[p].clear /\ call[p].err \notin EnvErrors
       /\ \A x \in obs[p].peers : Unrelated(Dest(p), x.path)) =>
      /\ call[p].err = "none"
      /\ obs[p].final = Utf8Encode(call[p].toon_content)
      /\ \A a \in ProperAncestors(Dest(p)) : kind[a] = "dir"

C7_Witness ==
  \E p, q \in Procs :
    /\ p # q /\ Succeeded(p) /\ Succeeded(q)
    /\ obs[p].peers = {[path |-> Dest(q), doc |-> call[q].doc]}
    /\ obs[q].peers = {[path |-> Dest(p), doc |-> call[p].doc]}
    /\ Dest(p) # Dest(q)
    /\ Parent(Dest(p)) = Parent(Dest(q)) /\ Len(Dest(p)) = MaxDirs + 1
    /\ call[p].doc # call[q].doc
    /\ obs[p].touched \cap DirPaths # {}
    /\ obs[q].touched \cap DirPaths # {}
    /\ data[Dest(p)] = Utf8Encode(call[p].toon_content)
    /\ data[Dest(q)] = Utf8Encode(call[q].toon_content)

\* C9: a run asked for JSON and TOON that exits with code 0 leaves two
\* separate non-empty files a.json and a.toon in the output directory; it
\* exits with code 0 whenever no export fails; and a file one export has
\* written stays as written for the rest of the run, also when the other
\* format's export fails.
C9_MultiFormat ==
  /\ (cli.pc = "exit" /\ cli.exit_code = 0) =>
       \A i \in 1..Len(cli.formats) :
         LET q == OutputFile(cli.output, cli.formats[i])
         IN kind[q] = "file" /\ Len(data[q]) > 0
  /\ \A w \in cli.written : kind[w[1]] = "file" /\ data[w[1]] = w[2]
  /\ (cli.pc = "exit" /\ cli.exit_code = 0) => Cardinality(cli.written) = Len(cli.formats)
  /\ ( /\ cli.pc = "exit" /\ cli.err \notin EnvErrors /\ cli.doc \in DocsOK
       /\ \A i \in 1..Len(cli.formats) :
            /\ cli.formats[i] = "toon" => toon = "module"
            /\ kind[OutputFile(cli.output, cli.formats[i])] # "dir" ) => cli.exit_code = 0

C9_Witness ==
  /\ cli.pc = "exit" /\ cli.exit_code = 1
  /\ cli.formats = <<"json", "toon">>
  /\ cli.output = Dir(1)
  /\ cli.written = {<<OutputFile(cli.output, "json"),
                      Utf8Encode(JsonEncode(ModelDump(cli.doc)))>>}
  /\ kind[OutputFile(cli.output, "toon")] = "file"
  /\ data[OutputFile(cli.output, "json")] = Utf8Encode(JsonEncode(ModelDump(cli.doc)))

====
